---- MODULE Spec2Model ----
\* A model of create_charts.py: a straight-line script that builds two
\* benchmark tables, draws each as a log-log line chart through the pyplot
\* state machine (a registry of figures plus a "current figure") and saves
\* each chart to a fixed file name, printing a confirmation line per file.
\*
\* One action per statement of the script.  The process is one run of the
\* script; NewRun starts the script again in the same directory, so that the
\* file system is the only state carried from one run to the next.
EXTENDS Integers, Sequences, FiniteSets

VARIABLES
    pc,            \* the statement the interpreter executes next
    run,           \* which run of the script this is (1 = the first)
    theme,         \* seaborn/matplotlib global style (rcParams)
    df_random,     \* DataFrame built from random_data
    df_grid,       \* DataFrame built from grid_data
    figs,          \* pyplot's figure registry: figure number -> figure
    current,       \* pyplot's current figure number (0 = none)
    plot_random,   \* Axes returned by the first lineplot (its figure number)
    plot_grid,     \* Axes returned by the second lineplot (its figure number)
    fs,            \* file system: path -> file
    writable,      \* file system: path -> can the path be opened for writing
    stdout,        \* lines printed by this run
    exitStatus,    \* exit status of this run: <<>> while it runs, <<code>> after
    err,           \* what ended this run: "none", "io" (OSError), "env"
    failedAt,      \* the statement that raised ("none" while none has)
    fs0,           \* history: the file system when this run started
    writes,        \* history: the files this run wrote, in order
    completed,     \* history: the charts whose save and print both finished
    prev           \* history: how the previous run ended and what it left

vars == <<pc, run, theme, df_random, df_grid, figs, current, plot_random,
          plot_grid, fs, writable, stdout, exitStatus, err, failedAt, fs0,
          writes, completed, prev>>

---------------------------------------------------------------------------
\* Bounds

\* How many times the script is run in succession in the same directory.
MaxRuns == 2

---------------------------------------------------------------------------
\* Program constants

RandomPath == "benchmark_random.png"
GridPath == "benchmark_grid.png"
OtherPath == "README.md"
OutPaths == {RandomPath, GridPath}
Paths == OutPaths \cup {OtherPath}

XRandom == "N"
XGrid == "Intersections"
YCol == "Time/Op (ns)"

TitleRandom == "Performance Scaling with Number of Segments (Random Data)"
TitleGrid == "Performance Scaling with Number of Intersections (Grid Data)"
XLabelRandom == "Number of Segments (n)"
XLabelGrid == "Number of Intersections (k)"
YLabel == "Time per Operation (ns, log scale)"

Dpi == 300

\* font_scale is kept in tenths (1.2 is 12).
WhiteGrid == [style |-> "whitegrid", palette |-> "muted", font_scale |-> 12]
DefaultTheme == [style |-> "default", palette |-> "default", font_scale |-> 10]

\* A defective table: the third N repeats the second.
random_data_dup ==
    [c \in {XRandom, YCol} |->
        IF c = XRandom THEN <<10, 100, 100, 10000>>
        ELSE <<4372, 115627, 1851251, 29025479>>]

random_data ==
    [c \in {XRandom, YCol} |->
        IF c = XRandom THEN <<10, 100, 1000, 10000>>
        ELSE <<4372, 115627, 1851251, 29025479>>]

grid_data ==
    [c \in {"Segments", XGrid, YCol} |->
        CASE c = "Segments" -> <<20, 100, 200, 400>>
          [] c = XGrid      -> <<100, 2500, 10000, 40000>>
          [] OTHER          -> <<55818, 1604035, 7506986, 31361110>>]

\* A DataFrame is a function from column names to equally long columns;
\* NoFrame is the name before it is bound.
NoFrame == [c \in {} |-> <<>>]

\* pd.DataFrame(dict of columns): the same columns under the same names.
DataFrame(data) == [c \in DOMAIN data |-> data[c]]

---------------------------------------------------------------------------
\* Files

Absent == [kind |-> "absent"]
OldFile == [kind |-> "old"]

Exists(f) == f.kind # "absent"
FileNames(files) == {p \in Paths : Exists(files[p])}

---------------------------------------------------------------------------
\* pyplot and seaborn

\* A new figure: one empty Axes, linear scales, the style in force.
NewFigure(size, style) ==
    [figsize |-> size, style |-> style, lines |-> <<>>,
     xscale |-> "linear", yscale |-> "linear",
     title |-> "", xlabel |-> "", ylabel |-> "",
     grid |-> [on |-> FALSE, which |-> "major", ls |-> "-"]]

\* The points of a frame: one [x, y] per row.
Points(df, xcol, ycol) ==
    [i \in 1..Len(df[xcol]) |-> [x |-> df[xcol][i], y |-> df[ycol][i]]]

RECURSIVE Insert(_, _)
Insert(p, s) ==
    IF s = <<>> THEN <<p>>
    ELSE IF p.x <= Head(s).x THEN <<p>> \o s
    ELSE <<Head(s)>> \o Insert(p, Tail(s))

\* lineplot draws the rows in ascending x (sort=True is its default).
RECURSIVE SortByX(_)
SortByX(s) == IF s = <<>> THEN <<>> ELSE Insert(Head(s), SortByX(Tail(s)))

\* A Line2D as lineplot draws it.  (lineplot also averages the y of rows that
\* share an x; the tables here have no two rows with the same x.)
Line(df, xcol, ycol) ==
    [pts |-> SortByX(Points(df, xcol, ycol)), marker |-> "o", markersize |-> 8]

\* The figure pyplot draws on: the current one (made on demand when there
\* is none).  GcfFigs is the registry after that call, GcfNum the number.
GcfFigs == IF current = 0 THEN Append(figs, NewFigure(<<6, 4>>, theme)) ELSE figs
GcfNum == IF current = 0 THEN Len(figs) + 1 ELSE current

\* What the Agg renderer puts in the file.  On a log axis a coordinate <= 0
\* has no position: it is clipped (nonpositive = "clip"), not rejected.
Visible(f, p) ==
    /\ (f.xscale = "log" => p.x > 0)
    /\ (f.yscale = "log" => p.y > 0)

RenderLine(f, l) ==
    [pts |-> [i \in 1..Len(l.pts) |->
                 [x |-> l.pts[i].x, y |-> l.pts[i].y,
                  clipped |-> ~Visible(f, l.pts[i])]],
     marker |-> l.marker, markersize |-> l.markersize]

Png(f, dpi, bbox) ==
    [kind |-> "png", dpi |-> dpi, bbox |-> bbox,
     fig |-> [f EXCEPT !.lines = [i \in 1..Len(f.lines) |-> RenderLine(f, f.lines[i])]]]

\* A defective plt.figure: it hands back the current figure when there is
\* one, instead of making a new one.
PltFigureReuse(size) ==
    IF current = 0
    THEN [figs |-> Append(figs, NewFigure(size, theme)), current |-> Len(figs) + 1]
    ELSE [figs |-> figs, current |-> current]

\* plt.figure(figsize=size): always a NEW figure, which becomes current.
\* The figures made earlier stay in the registry: nothing here closes them.
PltFigure(size) ==
    [figs |-> Append(figs, NewFigure(size, theme)), current |-> Len(figs) + 1]

\* sns.lineplot(x=, y=, data=, marker="o", markersize=8) with no ax= draws on
\* the current Axes, names the axes after the columns and returns the Axes.
SnsLineplot(df, xcol, ycol) ==
    [figs |-> [GcfFigs EXCEPT ![GcfNum] =
                  [@ EXCEPT !.lines = Append(@, Line(df, xcol, ycol)),
                            !.xlabel = xcol, !.ylabel = ycol]],
     current |-> GcfNum, ax |-> GcfNum]

\* Axes.set(xscale=, yscale=) acts on the Axes it is called on.
AxesSet(ax, xs, ys) == [figs EXCEPT ![ax].xscale = xs, ![ax].yscale = ys]

\* plt.title / plt.xlabel / plt.ylabel / plt.grid act on the current Axes.
PltTitle(t) == [figs |-> [GcfFigs EXCEPT ![GcfNum].title = t], current |-> GcfNum]
PltXlabel(t) == [figs |-> [GcfFigs EXCEPT ![GcfNum].xlabel = t], current |-> GcfNum]
PltYlabel(t) == [figs |-> [GcfFigs EXCEPT ![GcfNum].ylabel = t], current |-> GcfNum]
PltGrid(on, which, ls) ==
    [figs |-> [GcfFigs EXCEPT ![GcfNum].grid = [on |-> on, which |-> which, ls |-> ls]],
     current |-> GcfNum]

---------------------------------------------------------------------------
\* The process

Steps ==
    {"import", "set_theme", "data",
     "figure1", "lineplot1", "set1", "title1", "xlabel1", "ylabel1", "grid1",
     "savefig1", "print1",
     "figure2", "lineplot2", "set2", "title2", "xlabel2", "ylabel2", "grid2",
     "savefig2", "print2"}

Render1Steps ==
    {"figure1", "lineplot1", "set1", "title1", "xlabel1", "ylabel1", "grid1",
     "savefig1", "print1"}

Render2Steps ==
    {"figure2", "lineplot2", "set2", "title2", "xlabel2", "ylabel2", "grid2",
     "savefig2", "print2"}

Init ==
    /\ pc = "import"
    /\ run = 1
    /\ theme = DefaultTheme
    /\ df_random = NoFrame
    /\ df_grid = NoFrame
    /\ figs = <<>>
    /\ current = 0
    /\ plot_random = 0
    /\ plot_grid = 0
    /\ fs \in {f \in [Paths -> {Absent, OldFile}] : f[OtherPath] = OldFile}
    /\ writable \in {w \in [Paths -> BOOLEAN] : w[OtherPath]}
    /\ stdout = <<>>
    /\ exitStatus = <<>>
    /\ err = "none"
    /\ failedAt = "none"
    /\ fs0 = fs
    /\ writes = <<>>
    /\ completed = {}
    /\ prev = [ran |-> FALSE, ok |-> FALSE, fs |-> fs]

\* The statement at `from` ran to its end; `to` is the next statement.
Goto(from, to) ==
    /\ pc = from
    /\ pc' = to
    /\ UNCHANGED <<run, writable, exitStatus, err, failedAt, fs0, prev>>

\* A statement that only changes the figure registry.
Draw(from, to, r) ==
    /\ Goto(from, to)
    /\ figs' = r.figs
    /\ current' = r.current
    /\ UNCHANGED <<theme, df_random, df_grid, plot_random, plot_grid, fs,
                   stdout, writes, completed>>

Import ==
    /\ Goto("import", "set_theme")
    /\ UNCHANGED <<theme, df_random, df_grid, figs, current, plot_random,
                   plot_grid, fs, stdout, writes, completed>>

SetTheme ==
    /\ Goto("set_theme", "data")
    /\ theme' = WhiteGrid
    /\ UNCHANGED <<df_random, df_grid, figs, current, plot_random, plot_grid,
                   fs, stdout, writes, completed>>

BuildData ==
    /\ Goto("data", "figure1")
    /\ df_random' = DataFrame(random_data)
    /\ df_grid' = DataFrame(grid_data)
    /\ UNCHANGED <<theme, figs, current, plot_random, plot_grid, fs, stdout,
                   writes, completed>>

Figure1 == Draw("figure1", "lineplot1", PltFigure(<<10, 6>>))

Lineplot1 ==
    /\ Goto("lineplot1", "set1")
    /\ LET r == SnsLineplot(df_random, XRandom, YCol)
       IN /\ figs' = r.figs
          /\ current' = r.current
          /\ plot_random' = r.ax
    /\ UNCHANGED <<theme, df_random, df_grid, plot_grid, fs, stdout, writes,
                   completed>>

Set1 ==
    Draw("set1", "title1",
         [figs |-> AxesSet(plot_random, "log", "log"), current |-> current])

Title1 == Draw("title1", "xlabel1", PltTitle(TitleRandom))
Xlabel1 == Draw("xlabel1", "ylabel1", PltXlabel(XLabelRandom))
Ylabel1 == Draw("ylabel1", "grid1", PltYlabel(YLabel))
Grid1 == Draw("grid1", "savefig1", PltGrid(TRUE, "both", "--"))

\* A defective save: the OSError is swallowed and the script goes on.
SavefigSwallow(from, to, path) ==
    /\ pc = from
    /\ pc' = to
    /\ figs' = GcfFigs
    /\ current' = GcfNum
    /\ IF writable[path]
       THEN /\ fs' = [fs EXCEPT ![path] = Png(GcfFigs[GcfNum], Dpi, "tight")]
            /\ writes' = Append(writes, [path |-> path, file |-> fs'[path]])
       ELSE UNCHANGED <<fs, writes>>
    /\ UNCHANGED <<run, theme, df_random, df_grid, plot_random, plot_grid,
                   writable, stdout, exitStatus, err, failedAt, fs0,
                   completed, prev>>

\* A defective save: exclusive creation, which refuses a file that exists.
SavefigExclusive(from, to, path) ==
    /\ pc = from
    /\ figs' = GcfFigs
    /\ current' = GcfNum
    /\ IF writable[path] /\ ~Exists(fs[path])
       THEN /\ fs' = [fs EXCEPT ![path] = Png(GcfFigs[GcfNum], Dpi, "tight")]
            /\ writes' = Append(writes, [path |-> path, file |-> fs'[path]])
            /\ pc' = to
            /\ UNCHANGED <<exitStatus, err, failedAt>>
       ELSE /\ pc' = "failed"
            /\ exitStatus' = <<1>>
            /\ err' = "io"
            /\ failedAt' = from
            /\ UNCHANGED <<fs, writes>>
    /\ UNCHANGED <<run, theme, df_random, df_grid, plot_random, plot_grid,
                   writable, stdout, fs0, completed, prev>>

\* plt.savefig(path, dpi=, bbox_inches=) renders the current figure and
\* then opens path for writing.  A path that cannot be opened raises OSError
\* before a byte is written; the exception is not caught, so the process
\* ends.  An existing file is overwritten in place.
Savefig(from, to, path) ==
    /\ pc = from
    /\ figs' = GcfFigs
    /\ current' = GcfNum
    /\ IF writable[path]
       THEN /\ fs' = [fs EXCEPT ![path] = Png(GcfFigs[GcfNum], Dpi, "tight")]
            /\ writes' = Append(writes, [path |-> path, file |-> fs'[path]])
            /\ pc' = to
            /\ UNCHANGED <<exitStatus, err, failedAt>>
       ELSE /\ pc' = "failed"
            /\ exitStatus' = <<1>>
            /\ err' = "io"
            /\ failedAt' = from
            /\ UNCHANGED <<fs, writes>>
    /\ UNCHANGED <<run, theme, df_random, df_grid, plot_random, plot_grid,
                   writable, stdout, fs0, completed, prev>>

\* print(line): the chart's render is complete once its line is out.
PrintLine(from, to, line, chart) ==
    /\ Goto(from, to)
    /\ stdout' = Append(stdout, line)
    /\ completed' = completed \cup {chart}
    /\ UNCHANGED <<theme, df_random, df_grid, figs, current, plot_random,
                   plot_grid, fs, writes>>

Savefig1 == Savefig("savefig1", "print1", RandomPath)
Print1 == PrintLine("print1", "figure2", "Saved benchmark_random.png", 1)

Figure2 == Draw("figure2", "lineplot2", PltFigure(<<10, 6>>))

Lineplot2 ==
    /\ Goto("lineplot2", "set2")
    /\ LET r == SnsLineplot(df_grid, XGrid, YCol)
       IN /\ figs' = r.figs
          /\ current' = r.current
          /\ plot_grid' = r.ax
    /\ UNCHANGED <<theme, df_random, df_grid, plot_random, fs, stdout, writes,
                   completed>>

Set2 ==
    Draw("set2", "title2",
         [figs |-> AxesSet(plot_grid, "log", "log"), current |-> current])

Title2 == Draw("title2", "xlabel2", PltTitle(TitleGrid))
Xlabel2 == Draw("xlabel2", "ylabel2", PltXlabel(XLabelGrid))
Ylabel2 == Draw("ylabel2", "grid2", PltYlabel(YLabel))
Grid2 == Draw("grid2", "savefig2", PltGrid(TRUE, "both", "--"))
\* A defective second save: the first chart's file name, copied.
Savefig2Copied == Savefig("savefig2", "print2", RandomPath)

Savefig2 == Savefig("savefig2", "print2", GridPath)

\* A defective second print: the first chart's line, copied.
Print2Copied == PrintLine("print2", "exit", "Saved benchmark_random.png", 2)

Print2 == PrintLine("print2", "exit", "Saved benchmark_grid.png", 2)

\* The end of the script: the interpreter exits with status 0.
Exit ==
    /\ pc = "exit"
    /\ pc' = "done"
    /\ exitStatus' = <<0>>
    /\ UNCHANGED <<run, theme, df_random, df_grid, figs, current, plot_random,
                   plot_grid, fs, writable, stdout, err, failedAt, fs0,
                   writes, completed, prev>>

\* A defective raise: the process ends, but with status 0.
RaiseExitZero ==
    /\ pc \in Steps
    /\ pc' = "failed"
    /\ exitStatus' = <<0>>
    /\ err' = "env"
    /\ failedAt' = pc
    /\ UNCHANGED <<run, theme, df_random, df_grid, figs, current, plot_random,
                   plot_grid, fs, writable, stdout, fs0, writes, completed,
                   prev>>

\* A defective raise: an exception in the first render is caught and the
\* script goes on with the second.
RaiseContinue ==
    /\ pc \in Steps
    /\ pc' = IF pc \in Render1Steps THEN "figure2" ELSE "failed"
    /\ exitStatus' = IF pc \in Render1Steps THEN exitStatus ELSE <<1>>
    /\ err' = "env"
    /\ failedAt' = pc
    /\ UNCHANGED <<run, theme, df_random, df_grid, figs, current, plot_random,
                   plot_grid, fs, writable, stdout, fs0, writes, completed,
                   prev>>

\* Any statement may raise (a missing backend, a missing module, no memory).
\* The script has no try/except: the exception ends the process with status
\* 1 at the statement that raised, which has had no effect.
Raise ==
    /\ pc \in Steps
    /\ pc' = "failed"
    /\ exitStatus' = <<1>>
    /\ err' = "env"
    /\ failedAt' = pc
    /\ UNCHANGED <<run, theme, df_random, df_grid, figs, current, plot_random,
                   plot_grid, fs, writable, stdout, fs0, writes, completed,
                   prev>>

\* The script is started again in the same directory: a new process, whose
\* memory and console are fresh; only the files remain.
NewRun ==
    /\ pc \in {"done", "failed"}
    /\ run < MaxRuns
    /\ pc' = "import"
    /\ run' = run + 1
    /\ theme' = DefaultTheme
    /\ df_random' = NoFrame
    /\ df_grid' = NoFrame
    /\ figs' = <<>>
    /\ current' = 0
    /\ plot_random' = 0
    /\ plot_grid' = 0
    /\ stdout' = <<>>
    /\ exitStatus' = <<>>
    /\ err' = "none"
    /\ failedAt' = "none"
    /\ fs0' = fs
    /\ writes' = <<>>
    /\ completed' = {}
    /\ prev' = [ran |-> TRUE, ok |-> exitStatus = <<0>>, fs |-> fs]
    /\ UNCHANGED <<fs, writable>>

Render1 ==
    \/ Figure1 \/ Lineplot1 \/ Set1 \/ Title1 \/ Xlabel1 \/ Ylabel1 \/ Grid1
    \/ Savefig1 \/ Print1

Render2 ==
    \/ Figure2 \/ Lineplot2 \/ Set2 \/ Title2 \/ Xlabel2 \/ Ylabel2 \/ Grid2
    \/ Savefig2 \/ Print2

Next ==
    \/ Import \/ SetTheme \/ BuildData
    \/ Render1 \/ Render2
    \/ Exit \/ Raise \/ NewRun

Spec == Init /\ [][Next]_vars

---------------------------------------------------------------------------
\* The same script over other tables.  The tables of the script are literals,
\* so what the render sequence does with a table that holds a zero or a
\* negative number, or with another random table, is seen by running the same
\* statements with lines 10-23 binding one of a few alternative tables.

WithColumn(data, col, column) == [data EXCEPT ![col] = column]

RandomTables ==
    {random_data,
     WithColumn(random_data, XRandom, <<0, 100, 1000, 10000>>),
     WithColumn(random_data, YCol, <<4372, -115627, 1851251, 29025479>>),
     WithColumn(random_data, XRandom, <<1000, 10, 10000, 100>>)}

GridTables ==
    {grid_data,
     WithColumn(grid_data, XGrid, <<100, 2500, 0, 40000>>),
     WithColumn(grid_data, YCol, <<55818, 1604035, 7506986, -1>>)}

BuildDataAny ==
    /\ Goto("data", "figure1")
    /\ \E r \in RandomTables, g \in GridTables :
          /\ df_random' = DataFrame(r)
          /\ df_grid' = DataFrame(g)
    /\ UNCHANGED <<theme, figs, current, plot_random, plot_grid, fs, stdout,
                   writes, completed>>

NextData ==
    \/ Import \/ SetTheme \/ BuildDataAny
    \/ Render1 \/ Render2
    \/ Exit \/ Raise \/ NewRun

SpecData == Init /\ [][NextData]_vars

---------------------------------------------------------------------------
\* Properties

Range(s) == {s[i] : i \in 1..Len(s)}

StrictlyIncreasing(s) == \A i \in 1..(Len(s) - 1) : s[i] < s[i + 1]
AllPositive(s) == \A i \in 1..Len(s) : s[i] > 0

Built == df_random # NoFrame /\ df_grid # NoFrame

AfterData == Render1Steps \cup Render2Steps \cup {"exit", "done"}
BeforeRender2 == {"import", "set_theme", "data"} \cup Render1Steps

SavedLine(p) == "Saved " \o p
WrittenPaths == {writes[i].path : i \in 1..Len(writes)}

\* The chart one render is to produce from a table alone: a 10x6 figure in
\* the whitegrid style, one line through the rows in ascending x, log-log
\* axes, the given title and labels and a dashed grid on all ticks.
ChartOf(df, xcol, title, xlabel) ==
    [figsize |-> <<10, 6>>, style |-> WhiteGrid,
     lines |-> <<Line(df, xcol, YCol)>>,
     xscale |-> "log", yscale |-> "log",
     title |-> title, xlabel |-> xlabel, ylabel |-> YLabel,
     grid |-> [on |-> TRUE, which |-> "both", ls |-> "--"]]

RandomPng == Png(ChartOf(df_random, XRandom, TitleRandom, XLabelRandom), 300, "tight")
GridPng == Png(ChartOf(df_grid, XGrid, TitleGrid, XLabelGrid), 300, "tight")

\* C1: from the construction of the tables to exit, in each table the plotted
\* independent variable (random: N, grid: Intersections) is strictly
\* increasing and every plotted value on both axes is > 0; the same is true
\* of every line drawn on a canvas.
C1_DataIncreasingPositive ==
    /\ pc \in AfterData => Built
    /\ Built =>
         /\ StrictlyIncreasing(df_random[XRandom])
         /\ AllPositive(df_random[XRandom])
         /\ AllPositive(df_random[YCol])
         /\ StrictlyIncreasing(df_grid[XGrid])
         /\ AllPositive(df_grid[XGrid])
         /\ AllPositive(df_grid[YCol])
    /\ \A n \in 1..Len(figs) : \A k \in 1..Len(figs[n].lines) :
         LET pts == figs[n].lines[k].pts
         IN /\ StrictlyIncreasing([i \in 1..Len(pts) |-> pts[i].x])
            /\ \A i \in 1..Len(pts) : pts[i].x > 0 /\ pts[i].y > 0

C1_Witness ==
    /\ pc = "done"
    /\ Built
    /\ Len(figs) = 2
    /\ Len(figs[1].lines[1].pts) = 4
    /\ Len(figs[2].lines[1].pts) = 4

NonPositive(df, xcol) ==
    \E i \in 1..Len(df[xcol]) : df[xcol][i] <= 0 \/ df[YCol][i] <= 0

C2_ClippedNotRejected ==
    \A i \in 1..Len(writes) :
        (writes[i].path = RandomPath /\ NonPositive(df_random, XRandom)) =>
            \E k \in 1..4 : writes[i].file.fig.lines[1].pts[k].clipped

\* C3: each render releases its canvas before the next render begins: at most
\* one canvas is live at any point of the run, and none is live at exit.
C3_OneCanvasLive ==
    /\ Len(figs) <= 1
    /\ pc = "done" => Len(figs) = 0

\* What the script does instead: a canvas, once created, stays in the
\* registry to the end of the process, the first next to the second.
C3_CanvasesKept ==
    /\ pc \in Render1Steps \ {"figure1"} => Len(figs) = 1
    /\ pc \in (Render2Steps \ {"figure2"}) \cup {"exit", "done"} => Len(figs) = 2
    /\ Len(figs) <= 2

\* C4: when the path of a render cannot be opened for writing, that render
\* fails with an I/O error at its save, the run does not get past the save,
\* the file at the path is what it was when the run began, and no "Saved"
\* line is printed for it.
C4_UnwritableNoFile ==
    /\ ~writable[RandomPath] =>
         /\ fs[RandomPath] = fs0[RandomPath]
         /\ SavedLine(RandomPath) \notin Range(stdout)
         /\ pc \notin {"print1", "exit", "done"} \cup Render2Steps
    /\ ~writable[GridPath] =>
         /\ fs[GridPath] = fs0[GridPath]
         /\ SavedLine(GridPath) \notin Range(stdout)
         /\ pc \notin {"print2", "exit", "done"}
    /\ err = "io" =>
         /\ pc = "failed"
         /\ exitStatus = <<1>>
         /\ \/ failedAt = "savefig1" /\ ~writable[RandomPath]
            \/ failedAt = "savefig2" /\ ~writable[GridPath]

C4_Witness ==
    /\ err = "io"
    /\ failedAt = "savefig2"
    /\ fs[GridPath] = OldFile
    /\ stdout = <<SavedLine(RandomPath)>>

\* C5: a run in which no statement fails performs exactly two renders, one
\* after the other: the random table to benchmark_random.png, then the grid
\* table to benchmark_grid.png; no statement of the second render runs
\* before the first file is written, and there is never a third write.
C5_TwoRendersInOrder ==
    /\ Len(writes) <= 2
    /\ pc \in Render1Steps \ {"print1"} => writes = <<>>
    /\ pc \in {"print1"} \cup (Render2Steps \ {"print2"}) =>
         writes = <<[path |-> "benchmark_random.png", file |-> RandomPng]>>
    /\ pc \in {"print2", "exit", "done"} =>
         writes = <<[path |-> "benchmark_random.png", file |-> RandomPng],
                    [path |-> "benchmark_grid.png", file |-> GridPng]>>
    /\ pc = "done" =>
         /\ fs["benchmark_random.png"] = RandomPng
         /\ fs["benchmark_grid.png"] = GridPng

C5_Witness ==
    /\ pc = "done"
    /\ run = 1
    /\ Len(writes) = 2
    /\ fs0[RandomPath] = Absent
    /\ fs[RandomPath].kind = "png"

\* C6: a successful run prints exactly "Saved benchmark_random.png" and then
\* "Saved benchmark_grid.png"; in every run a "Saved" line is printed only
\* once the write of that file has completed.
C6_SavedAfterWrite ==
    /\ pc = "done" =>
         stdout = <<"Saved benchmark_random.png", "Saved benchmark_grid.png">>
    /\ \A p \in OutPaths :
         SavedLine(p) \in Range(stdout) =>
             /\ p \in WrittenPaths
             /\ fs[p].kind = "png"
    /\ \A i \in 1..Len(stdout) : \E p \in OutPaths : stdout[i] = SavedLine(p)
    /\ Len(stdout) <= Len(writes)

C6_Witness ==
    /\ pc = "done"
    /\ stdout = <<"Saved benchmark_random.png", "Saved benchmark_grid.png">>
    /\ WrittenPaths = OutPaths

\* C7: a run that follows a successful run in the same directory is not
\* stopped by the files already there (no I/O error), and it leaves the
\* directory with the same set of files as the run before: the two outputs,
\* each overwritten in place with the same chart, and nothing else added.
C7_RerunSameFiles ==
    (prev.ran /\ prev.ok) =>
        /\ err # "io"
        /\ FileNames(prev.fs) = FileNames(fs0) /\ OutPaths \subseteq FileNames(fs0)
        /\ FileNames(fs) = FileNames(prev.fs)
        /\ FileNames(fs) = OutPaths \cup {OtherPath}
        /\ pc \in {"print1"} \cup Render2Steps \cup {"exit", "done"} =>
             RandomPath \in WrittenPaths
        /\ pc = "done" => (WrittenPaths = OutPaths /\ fs = prev.fs)

C7_Witness ==
    /\ prev.ran
    /\ prev.ok
    /\ pc = "done"
    /\ exitStatus = <<0>>
    /\ WrittenPaths = OutPaths

\* C8: the exit status is 0 exactly when both renders completed, and it is
\* non-zero whenever a statement raised; an error is never caught or retried:
\* the run ends at the statement that raised.
C8_ExitStatus ==
    /\ exitStatus = <<>> <=> pc \in Steps \cup {"exit"}
    /\ exitStatus = <<0>> <=> (pc = "done" /\ completed = {1, 2})
    /\ exitStatus = <<1>> <=> pc = "failed"
    /\ pc = "done" => completed = {1, 2} /\ err = "none"
    /\ pc = "failed" => completed # {1, 2}
    /\ err # "none" <=> pc = "failed"
    /\ failedAt # "none" <=> pc = "failed"

C8_Witness ==
    /\ pc = "failed"
    /\ exitStatus = <<1>>
    /\ failedAt \in Render2Steps
    /\ completed = {1}

\* C9: the renders do not interfere: every drawing statement of a render acts
\* on the canvas that render created, so the file written for the grid chart
\* is a function of the grid table and grid labels alone, whatever the
\* random table is, and likewise the random chart of the random table alone.
C9_NoInterference ==
    /\ \A i \in 1..Len(writes) :
         /\ writes[i].path = GridPath => writes[i].file = GridPng
         /\ writes[i].path = RandomPath => writes[i].file = RandomPng
    /\ plot_random \in {0, 1}
    /\ plot_grid \in {0, 2}
    /\ pc \in Render1Steps \ {"figure1"} => current = 1
    /\ pc \in Render2Steps \ {"figure2"} =>
         /\ current = 2
         /\ Png(figs[1], 300, "tight") = RandomPng

C9_Witness ==
    /\ pc = "done"
    /\ df_random # DataFrame(random_data)
    /\ df_grid = DataFrame(grid_data)
    /\ fs[GridPath] = GridPng
    /\ fs[RandomPath] # fs[GridPath]

\* C10: the run is fail-fast.  When a statement before the second render
\* raises, the run ends there: the second render is never started,
\* benchmark_grid.png is left as it was and its "Saved" line is not printed.
\* When a statement of the second render raises, benchmark_random.png and its
\* "Saved" line stay as the first render left them.
C10_FailFast ==
    /\ failedAt \in BeforeRender2 =>
         /\ pc = "failed"
         /\ fs[GridPath] = fs0[GridPath]
         /\ GridPath \notin WrittenPaths
         /\ SavedLine(GridPath) \notin Range(stdout)
         /\ Len(figs) <= 1
         /\ plot_grid = 0
    /\ failedAt \in Render2Steps =>
         /\ pc = "failed"
         /\ fs[RandomPath] = RandomPng
         /\ writes[1].path = RandomPath
         /\ stdout = <<SavedLine(RandomPath)>>

C10_WitnessFirst ==
    /\ failedAt = "savefig1"
    /\ err = "io"
    /\ writable[GridPath]
    /\ fs[GridPath] = OldFile

====
